---- MODULE Spec2Model ----
(***************************************************************************)
(* Model of the GoodFork API models layer: tables, bookings, orders,       *)
(* stock and daily sales statistics, as driven by concurrent request       *)
(* handlers.  Every `await db.query(...)` of a handler is one atomic step  *)
(* of the process that runs the handler; the code between two awaits is    *)
(* folded into the step that follows it.                                   *)
(***************************************************************************)
EXTENDS Integers, Sequences, FiniteSets, TLC

VARIABLES
    tables,      \* rows of `tables`, by table_id
    bookings,    \* rows of `bookings`, by booking_id (AUTO_INCREMENT)
    orders,      \* rows of `orders`, by order_id (AUTO_INCREMENT)
    orders_menus, \* rows of `orders_menus`, in insertion order
    stocks,      \* rows of `stocks`, by stock_id
    menu_ingredients, \* rows of `menu_ingredients`, by ingredient_id
    stock_statistics, \* rows of `stock_statistics`, by stat_id
    menus_statistics, \* rows of `menus_statistics`, by stat_id
    sales_statistics, \* rows of `sales_statistics` of the current day, by stat_id
    measurements, \* rows of measurement_units_types joined with its unit and its type
    pc,          \* position of each request handler
    loc,         \* local variables of each request handler
    result       \* value returned (or exception thrown) by each handler

db == <<tables, bookings, orders, orders_menus, stocks, sales_statistics, measurements, menu_ingredients, stock_statistics, menus_statistics>>
vars == <<tables, bookings, orders, orders_menus, stocks, sales_statistics, measurements, menu_ingredients, stock_statistics, menus_statistics, pc, loc, result>>

----------------------------------------------------------------------------
(* Numbers *)

\* JavaScript numbers as exact fractions n/d in lowest terms; NaN is 0/0
RECURSIVE Gcd(_, _)
Gcd(a, b) == IF b = 0 THEN a ELSE Gcd(b, a % b)
NaN == [n |-> 0, d |-> 0]
Frac(n, d) == IF d = 0 THEN NaN ELSE [n |-> n \div Gcd(n, d), d |-> d \div Gcd(n, d)]
Times(a, b) == IF a.d = 0 \/ b.d = 0 THEN NaN ELSE [n |-> (a.n \div Gcd(a.n, b.d)) * (b.n \div Gcd(b.n, a.d)), d |-> (a.d \div Gcd(b.n, a.d)) * (b.d \div Gcd(a.n, b.d))]

\* a / b, a < b and Math.floor(a) for fractions that are not negative, the
\* divisor not being zero
Div(a, b) == IF a.d = 0 \/ b.d = 0 \/ b.n = 0 THEN NaN ELSE Frac(a.n * b.d, a.d * b.n)
Less(a, b) == a.d # 0 /\ b.d # 0 /\ a.n * b.d < b.n * a.d
Floor(a) == IF a.d = 0 THEN NaN ELSE Frac(a.n \div a.d, 1)

\* Checkers.isNumber: typeof value === "number"; every fraction is a number,
\* NaN included
isNumber(value) == DOMAIN value = {"n", "d"}

\* Checkers.isGreaterThan: false unless both values are numbers; a
\* comparison with NaN is false
isGreaterThan(a, b, canBeEqual) ==
    /\ isNumber(a) /\ isNumber(b)
    /\ a.d # 0 /\ b.d # 0
    /\ IF canBeEqual THEN a.n * b.d >= b.n * a.d ELSE a.n * b.d > b.n * a.d

\* the SQL comparison `column >= ?` of an integer column with a number
SqlAtLeast(column, value) == value.d # 0 /\ column * value.d >= value.n

----------------------------------------------------------------------------
(* Bounds *)

NumTables == 3
MaxBookings == 2

Procs == {"p1", "p2"}
TableIds == 1..NumTables
\* the capacities tables are created with, and the party sizes of the
\* requests: NaN, none, half a person, fitting a small table, fitting a large
\* table only, too large
Capacities == {2, 4}
ClientsNb == {NaN, Frac(0, 1), Frac(1, 2), Frac(2, 1), Frac(3, 1), Frac(5, 1)}
\* the whole party sizes among them
PlainClientsNb == {Frac(0, 1), Frac(2, 1), Frac(3, 1), Frac(5, 1)}

MaxOrders == 2
MaxUnits == 2
MaxIngredients == 2
StockIds == {1, 2}

\* the menu catalogue: listed price and ingredients (stock item, quantity in
\* the unit of the stock item) of each menu
MenuIds == {1, 2}
MenuPrice == <<3, 5>>
MenuIngredients == << <<[stock_id |-> 1, units |-> 1]>>,
                      <<[stock_id |-> 1, units |-> 2], [stock_id |-> 2, units |-> 1]>> >>

----------------------------------------------------------------------------
(* JavaScript values handed to the update helpers *)

JNull == [t |-> "null"]
JUndefined == [t |-> "undefined"]
JBool(b) == [t |-> "bool", v |-> b]
JNum(n) == [t |-> "num", v |-> n]
JStr(str) == [t |-> "str", v |-> str]

\* id of a row that does not exist: the value bound to a `?` placeholder
\* when the JavaScript argument is undefined
NoId == 0

\* Functions.convertValue
convertValue(value) ==
    IF value.t = "bool" THEN (IF value.v THEN 1 ELSE 0) ELSE value.v

\* Functions.getFieldsToUpdate as it was before convertValue: only the
\* truthy values are kept, so false is never written (the numbers and the
\* strings of the requests are all truthy)
getFieldsToUpdate_Truthy(fields) ==
    LET keys == {k \in DOMAIN fields :
                    \/ fields[k].t = "bool" /\ fields[k].v
                    \/ fields[k].t \in {"num", "str"}}
    IN  [k \in keys |-> convertValue(fields[k])]

\* Functions.getFieldsToUpdate: the assignments of the SET clause, as a
\* function from column name to value; the empty function stands for null
getFieldsToUpdate(fields) ==
    LET keys == {k \in DOMAIN fields : fields[k].t \notin {"null", "undefined"}}
    IN  [k \in keys |-> convertValue(fields[k])]

\* UPDATE <rows> SET <upd> without its WHERE clause
SqlUpdate_NoWhere(rows, id, upd) ==
    [i \in DOMAIN rows |-> [f \in DOMAIN rows[i] |-> IF f \in DOMAIN upd THEN upd[f] ELSE rows[i][f]]]

\* UPDATE <rows> SET <upd> WHERE <key> = id
SqlUpdate(rows, id, upd) ==
    IF id \in DOMAIN rows
    THEN [rows EXCEPT ![id] =
            [f \in DOMAIN rows[id] |-> IF f \in DOMAIN upd THEN upd[f] ELSE rows[id][f]]]
    ELSE rows

\* INSERT INTO <rows>: AUTO_INCREMENT key
NextId(rows) ==
    IF DOMAIN rows = {} THEN 1
    ELSE (CHOOSE i \in DOMAIN rows : \A j \in DOMAIN rows : j <= i) + 1

SqlInsert(rows, row) == rows @@ (NextId(rows) :> row)

\* DELETE FROM <rows> WHERE <key> = id
SqlDelete(rows, id) == [i \in DOMAIN rows \ {id} |-> rows[i]]

----------------------------------------------------------------------------
(* Return values *)

Ok == [kind |-> "ok", code |-> 200, fields |-> {}]
ModelError(code, fields) == [kind |-> "error", code |-> code, fields |-> fields]
Thrown == [kind |-> "throw", code |-> 500, fields |-> {}]
NoResult == [kind |-> "none", code |-> 0, fields |-> {}]

IsModelError(r) == r.kind = "error"

NoLoc == [op |-> "none", clients_nb |-> NaN, table_id |-> NoId, booking_id |-> NoId,
          order_id |-> NoId, todo |-> <<>>, benefits |-> 0, stat_id |-> NoId,
          value |-> NaN, from |-> "", to |-> "", user_id |-> NoId, time |-> "", args |-> <<>>]

\* Stock.update without the test of the quantity
StockUnitsRejected_Never(units) == FALSE

\* Stock.update: units && !Checkers.isGreaterThan(units, 0, true)
StockUnitsRejected(units) == units # 0 /\ ~(units >= 0)

----------------------------------------------------------------------------
(* models/Table *)

\* Table.getByTableCapacity without ORDER BY capacity
getByTableCapacity_Unordered(capacity) ==
    {t \in DOMAIN tables : SqlAtLeast(tables[t].capacity, capacity) /\ tables[t].is_available = 1}

\* Table.getByTableCapacity without the test of is_available
getByTableCapacity_AnyState(capacity) ==
    LET match == {t \in DOMAIN tables : SqlAtLeast(tables[t].capacity, capacity)}
    IN  {t \in match : \A u \in match : tables[t].capacity <= tables[u].capacity}

\* Table.getByTableCapacity: the rows the SELECT may return first.
\* ORDER BY capacity leaves the order of rows of equal capacity open.
getByTableCapacity(capacity) ==
    LET match == {t \in DOMAIN tables :
                    SqlAtLeast(tables[t].capacity, capacity) /\ tables[t].is_available = 1}
    IN  {t \in match : \A u \in match : tables[t].capacity <= tables[u].capacity}

\* Table.update without is_available among the fields it writes
TableUpdateFields_NoAvailability(name, capacity, is_available, can_be_used) ==
    getFieldsToUpdate([name |-> name, capacity |-> capacity, can_be_used |-> can_be_used])

\* Table.update with its two flags handed to each other's column
TableUpdateFields_Swapped(name, capacity, is_available, can_be_used) ==
    getFieldsToUpdate([name |-> name, capacity |-> capacity,
                       is_available |-> can_be_used, can_be_used |-> is_available])

\* Table.update: the SET clause, or the empty function for "nothing to update"
TableUpdateFields(name, capacity, is_available, can_be_used) ==
    getFieldsToUpdate([name |-> name, capacity |-> capacity,
                       is_available |-> is_available, can_be_used |-> can_be_used])

\* Checkers.strInRange(name, null, 255, true, true)
NameInRange(name) == name.t \in {"null", "undefined"} \/ (name.t = "str" /\ name.v <= 255)

\* Table.update: capacity && !Checkers.isGreaterThan(capacity, 0, true)
CapacityRejected(capacity) ==
    /\ capacity.t = "num" /\ capacity.v # 0
    /\ ~isGreaterThan(Frac(capacity.v, 1), Frac(0, 1), TRUE)

\* Table.update
TableUpdate(p) ==
    /\ pc[p] = "idle"
    \* the arguments the requests use; a name is given by its length
    /\ \E table_id \in 1..(NumTables + 1), name \in {JNull, JStr(300)},
          capacity \in {JNull, JNum(0 - 2), JNum(2)},
          is_available \in {JNull, JBool(TRUE), JBool(FALSE)}, can_be_used \in {JUndefined, JBool(FALSE)} :
        LET args == [name |-> name, capacity |-> capacity,
                     is_available |-> is_available, can_be_used |-> can_be_used]
            updatingFields == TableUpdateFields(name, capacity, is_available, can_be_used)
        IN  /\ loc' = [loc EXCEPT ![p] = [NoLoc EXCEPT !.op = "table_update", !.table_id = table_id, !.args = args]]
            /\ IF ~NameInRange(name)
               THEN /\ result' = [result EXCEPT ![p] = ModelError(400, {"name"})]
                    /\ UNCHANGED tables
               ELSE IF CapacityRejected(capacity)
               THEN /\ result' = [result EXCEPT ![p] = ModelError(400, {"capacity"})]
                    /\ UNCHANGED tables
               ELSE IF DOMAIN updatingFields = {}
               THEN /\ result' = [result EXCEPT ![p] = ModelError(200, {})]
                    /\ UNCHANGED tables
               ELSE /\ tables' = SqlUpdate(tables, table_id, updatingFields)
                    /\ result' = [result EXCEPT ![p] = Ok]
    /\ pc' = [pc EXCEPT ![p] = "done"]
    /\ UNCHANGED <<bookings, measurements, menu_ingredients, stock_statistics, menus_statistics, orders, orders_menus, stocks, sales_statistics>>

----------------------------------------------------------------------------
(* models/Booking *)

\* the times a booking is asked for: a string that is no date, a date
\* before the current time, a date after it
BookingTimes == {"invalid", "past", "future"}
\* the times asked for by requests made ahead of the booking
PlainBookingTimes == {"invalid", "future"}

\* Checkers.isDate(new Date(time)): a Date object whose getDate() is a day
\* of the month, which an invalid date has not; the current time plays no part
isDate(time) == time # "invalid"

NewBooking(table_id, time, clients_nb) ==
    [table_id |-> table_id, time |-> time, clients_nb |-> clients_nb,
     is_client_on_place |-> 0, can_client_pay |-> 0, is_finished |-> 0, is_paid |-> 0]

\* Booking.add may still insert a row within the bound on `bookings`
CanInsertBooking ==
    Cardinality(DOMAIN bookings)
        + Cardinality({q \in Procs : pc[q] \in {"add_update", "add_insert"}}) < MaxBookings

\* Booking.add up to its first query: validation, then
\* Table.getByTableCapacity, for a request drawn from the given times and
\* party sizes
BookingAddRequest(p, times, sizes) ==
    /\ pc[p] = "idle"
    /\ \E time \in times, clients_nb \in sizes :
        LET l == [NoLoc EXCEPT !.op = "add", !.time = time, !.clients_nb = clients_nb]
        IN  IF ~isDate(time)
            THEN /\ pc' = [pc EXCEPT ![p] = "done"]
                 /\ loc' = [loc EXCEPT ![p] = l]
                 /\ result' = [result EXCEPT ![p] = ModelError(400, {"time"})]
            ELSE IF ~isGreaterThan(clients_nb, Frac(0, 1), FALSE)
            THEN /\ pc' = [pc EXCEPT ![p] = "done"]
                 /\ loc' = [loc EXCEPT ![p] = l]
                 /\ result' = [result EXCEPT ![p] = ModelError(400, {"clients_nb"})]
            ELSE IF getByTableCapacity(clients_nb) = {}
            THEN /\ pc' = [pc EXCEPT ![p] = "done"]
                 /\ loc' = [loc EXCEPT ![p] = l]
                 /\ result' = [result EXCEPT ![p] = ModelError(400, {"time"})]
            ELSE /\ CanInsertBooking
                 /\ \E t \in getByTableCapacity(clients_nb) :
                        loc' = [loc EXCEPT ![p] = [l EXCEPT !.table_id = t]]
                 /\ pc' = [pc EXCEPT ![p] = "add_update"]
                 /\ UNCHANGED result
    /\ UNCHANGED db

\* POST /bookings with any time and any party size
BookingAddSelect(p) == BookingAddRequest(p, BookingTimes, ClientsNb)

\* POST /bookings made ahead for a whole number of clients
BookingAddPlain(p) == BookingAddRequest(p, PlainBookingTimes, PlainClientsNb)

\* Booking.add: await Table.update(db, table_id, null, null, false)
BookingAddUpdate(p) ==
    /\ pc[p] = "add_update"
    /\ tables' = SqlUpdate(tables, loc[p].table_id,
                           TableUpdateFields(JNull, JNull, JBool(FALSE), JUndefined))
    /\ pc' = [pc EXCEPT ![p] = "add_insert"]
    /\ UNCHANGED <<measurements, menu_ingredients, stock_statistics, menus_statistics, bookings, orders, orders_menus, stocks, sales_statistics, loc, result>>

\* Booking.add: INSERT INTO bookings(user_id, table_id, time, clients_nb)
BookingAddInsert(p) ==
    /\ pc[p] = "add_insert"
    /\ bookings' = SqlInsert(bookings, NewBooking(loc[p].table_id, loc[p].time, loc[p].clients_nb))
    /\ pc' = [pc EXCEPT ![p] = "done"]
    /\ loc' = [loc EXCEPT ![p].booking_id = NextId(bookings)]
    /\ result' = [result EXCEPT ![p] = Ok]
    /\ UNCHANGED <<measurements, menu_ingredients, stock_statistics, menus_statistics, tables, orders, orders_menus, stocks, sales_statistics>>

\* Booking.buildBookings on a single row: the object it returns has a
\* nested `table` and neither a `table_id` nor an `is_paid` property
buildBookings(booking_id) ==
    LET booking == bookings[booking_id]
        table == tables[booking.table_id]
    IN  [kind |-> "object",
         booking_id |-> booking_id,
         table |-> [table_id |-> booking.table_id, capacity |-> table.capacity],
         time |-> booking.time,
         clients_nb |-> booking.clients_nb,
         is_client_on_place |-> booking.is_client_on_place,
         can_client_pay |-> booking.can_client_pay,
         is_finished |-> booking.is_finished]

\* Booking.getById: one full booking (never an array) or a ModelError.
\* Its three SELECTs are folded into one step: the columns it reads from
\* `tables` (table_id, capacity) are never written by a handler.
BookingGetById(booking_id) ==
    IF booking_id \in DOMAIN bookings
    THEN buildBookings(booking_id)
    ELSE ModelError(404, {})

\* value[0] in JavaScript: defined only when value is an array
HasIndexZero(value) == value.kind = "array"

\* Booking.delete.  `booking[0].table.table_id` is evaluated on the value of
\* getById, which is never an array, so the handler throws a TypeError
\* before Table.update and before the DELETE.
BookingDelete(p) ==
    /\ pc[p] = "idle"
    /\ \E booking_id \in 1..MaxBookings :
        LET booking == BookingGetById(booking_id)
        IN  /\ loc' = [loc EXCEPT ![p] = [NoLoc EXCEPT !.op = "delete", !.booking_id = booking_id]]
            /\ IF ~HasIndexZero(booking)
               THEN /\ result' = [result EXCEPT ![p] = Thrown]
                    /\ UNCHANGED <<tables, bookings>>
               ELSE /\ tables' = SqlUpdate(tables, booking.items[1].table.table_id,
                                    TableUpdateFields(JNull, JNull, JBool(TRUE), JUndefined))
                    /\ bookings' = SqlDelete(bookings, booking_id)
                    /\ result' = [result EXCEPT ![p] = Ok]
    /\ pc' = [pc EXCEPT ![p] = "done"]
    /\ UNCHANGED <<measurements, menu_ingredients, stock_statistics, menus_statistics, orders, orders_menus, stocks, sales_statistics>>

\* Booking.update as it was with five optional arguments: is_finished and
\* is_paid are not written
BookingUpdateFields_FiveArgs(table_id, time, clients_nb, is_client_on_place, can_client_pay, is_finished, is_paid) ==
    getFieldsToUpdate([table_id |-> table_id, time |-> time, clients_nb |-> clients_nb,
                       is_client_on_place |-> is_client_on_place,
                       can_client_pay |-> can_client_pay])

\* Booking.update: the SET clause built from the seven optional arguments
BookingUpdateFields(table_id, time, clients_nb, is_client_on_place, can_client_pay, is_finished, is_paid) ==
    getFieldsToUpdate([table_id |-> table_id, time |-> time, clients_nb |-> clients_nb,
                       is_client_on_place |-> is_client_on_place,
                       can_client_pay |-> can_client_pay,
                       is_finished |-> is_finished, is_paid |-> is_paid])

\* Booking.update, its arguments drawn from the given sets
BookingUpdateRequest(p, times, sizes, on_place, can_pay, finished, paid) ==
    /\ pc[p] = "idle"
    /\ \E booking_id \in 1..(MaxBookings + 1), time \in times, clients_nb \in sizes,
          is_client_on_place \in on_place, can_client_pay \in can_pay,
          is_finished \in finished, is_paid \in paid :
        LET args == [table_id |-> JNull, time |-> time, clients_nb |-> clients_nb,
                     is_client_on_place |-> is_client_on_place,
                     can_client_pay |-> can_client_pay,
                     is_finished |-> is_finished, is_paid |-> is_paid]
            updatingFields == BookingUpdateFields(args.table_id, args.time, args.clients_nb,
                                  args.is_client_on_place, args.can_client_pay,
                                  args.is_finished, args.is_paid)
        IN  /\ loc' = [loc EXCEPT ![p] = [NoLoc EXCEPT !.op = "update", !.booking_id = booking_id, !.args = args]]
            /\ IF DOMAIN updatingFields = {}
               THEN /\ result' = [result EXCEPT ![p] = ModelError(200, {})]
                    /\ UNCHANGED bookings
               ELSE /\ bookings' = SqlUpdate(bookings, booking_id, updatingFields)
                    /\ result' = [result EXCEPT ![p] = Ok]
    /\ pc' = [pc EXCEPT ![p] = "done"]
    /\ UNCHANGED <<tables, measurements, menu_ingredients, stock_statistics, menus_statistics, orders, orders_menus, stocks, sales_statistics>>

\* Booking.update of the time, the party size and the flags a booking gains
BookingUpdate(p) ==
    BookingUpdateRequest(p, {JNull, JStr("past")}, {JUndefined, JNum(Frac(3, 1))},
                         {JNull, JBool(TRUE), JBool(FALSE)}, {JNull, JBool(TRUE)},
                         {JNull}, {JUndefined, JBool(TRUE)})

\* Booking.update of is_finished and is_paid to false
BookingUpdateBack(p) ==
    BookingUpdateRequest(p, {JNull}, {JUndefined}, {JNull}, {JNull},
                         {JNull, JBool(FALSE)}, {JUndefined, JBool(FALSE)})

----------------------------------------------------------------------------
(* models/SalesStatistics *)

\* SalesStatistics.addBenefits up to the SELECT of getCurrDayId.  LIMIT 1
\* without ORDER BY may return any of today's rows.
AddBenefitsSelect(p) ==
    /\ pc[p] = "stat_select"
    /\ IF DOMAIN sales_statistics = {}
       THEN /\ pc' = [pc EXCEPT ![p] = "stat_insert"]
            /\ UNCHANGED loc
       ELSE /\ \E stat_id \in DOMAIN sales_statistics :
                loc' = [loc EXCEPT ![p].stat_id = stat_id]
            /\ pc' = [pc EXCEPT ![p] = "stat_update"]
    /\ UNCHANGED <<db, result>>

\* SalesStatistics.addTodayStat: INSERT INTO sales_statistics VALUES ()
addTodayStat(p) ==
    /\ pc[p] = "stat_insert"
    /\ sales_statistics' = SqlInsert(sales_statistics, [benefits |-> 0])
    /\ loc' = [loc EXCEPT ![p].stat_id = NextId(sales_statistics)]
    /\ pc' = [pc EXCEPT ![p] = "stat_update"]
    /\ UNCHANGED <<measurements, menu_ingredients, stock_statistics, menus_statistics, tables, bookings, orders, orders_menus, stocks, result>>

\* the UPDATE of addBenefits writing `benefits = ?`
AddBenefitsSet_Overwrite(rows, stat_id, benefits) ==
    [rows EXCEPT ![stat_id].benefits = benefits]

\* UPDATE sales_statistics SET benefits = benefits + ? WHERE stat_id = ?
AddBenefitsSet(rows, stat_id, benefits) ==
    [rows EXCEPT ![stat_id].benefits = @ + benefits]

\* SalesStatistics.addBenefits: the final UPDATE; the payment handlers
\* return undefined when its result is not a ModelError
AddBenefitsUpdate(p) ==
    /\ pc[p] = "stat_update"
    /\ sales_statistics' = AddBenefitsSet(sales_statistics, loc[p].stat_id, loc[p].benefits)
    /\ pc' = [pc EXCEPT ![p] = "done"]
    /\ result' = [result EXCEPT ![p] = Ok]
    /\ UNCHANGED <<measurements, menu_ingredients, stock_statistics, menus_statistics, tables, bookings, orders, orders_menus, stocks, loc>>

\* SalesStatistics.getToday: the benefits of the row it returns.  LIMIT 1
\* without ORDER BY may return any of today's rows; with no row the result
\* is the ModelError(404)
getToday(rows) == {rows[i].benefits : i \in DOMAIN rows}

----------------------------------------------------------------------------
(* models/Order *)

\* sum of a sequence of numbers: Array.prototype.reduce with +
RECURSIVE SumSeq(_)
SumSeq(s) == IF s = <<>> THEN 0 ELSE Head(s) + SumSeq(Tail(s))

\* the price of an order that counts each menu once, however often listed
OrderPrice_Distinct(menus) == SumSeq([m \in 1..Len(MenuPrice) |-> IF \E i \in 1..Len(menus) : menus[i] = m THEN MenuPrice[m] ELSE 0])

\* Order.add: let price = 0; menus.map(menu => price += menu.price); the
\* Menu objects of the list carry the listed price of their menu
OrderPrice(menus) == SumSeq([i \in 1..Len(menus) |-> MenuPrice[menus[i]]])

\* the menu lists a request may carry: none, twice the same menu, two menus
MenuLists == {<<>>, <<1, 1>>, <<1, 2>>}

\* the users table, which no model of this development writes, and the
\* user ids a request may carry: a user and an id that matches no user
Users == {1}
UserIds == {1, 2}

\* User.getById: user[0] ? user[0] : new ModelError(404, ...)
UserGetById(user_id) == IF user_id \in Users THEN [kind |-> "user", user_id |-> user_id] ELSE ModelError(404, {})

\* !value of JavaScript for the values User.getById returns: an object, a
\* ModelError included, is truthy
Not(value) == value.kind \in {"null", "undefined"}

\* the reduce of payTakeAway keeping the price of the last menu only
TakeAwayBenefits_LastOnly(menus) == IF menus = <<>> THEN 0 ELSE MenuPrice[menus[Len(menus)]]

\* Payment.payTakeAway: menus.reduce((previousValue, currentValue) =>
\* previousValue + currentValue.price, 0)
TakeAwayBenefits(menus) == SumSeq([i \in 1..Len(menus) |-> MenuPrice[menus[i]]])

\* Payment.payTakeAway going on to the statistics whatever Order.add returned
PayTakeAwayNext_Always(order) == "stat_select"

\* Payment.payTakeAway after Order.add: if (order instanceof ModelError)
\* return the error, else go on to SalesStatistics.addBenefits
PayTakeAwayNext(order) == IF IsModelError(order) THEN "done" ELSE "stat_select"

\* where a handler stands once Order.add has returned `order`: the orders
\* route answers, payTakeAway tests the value
AfterOrderAdd(op, order) == IF op = "take_away" THEN PayTakeAwayNext(order) ELSE "done"

CanInsertOrder == Cardinality(DOMAIN orders) < MaxOrders

\* Order.add up to the INSERT INTO orders, called by the orders route
\* (op "order") or by Payment.payTakeAway (op "take_away": no booking,
\* benefits = the sum of the menu prices).  User.getById answers a missing
\* user with a ModelError, which is truthy, so `!user` never holds.  The
\* INSERT of an order whose user_id matches no user either succeeds or is
\* refused by the store (a constraint on orders.user_id), which throws.
OrderAddInsert(p, op) ==
    /\ pc[p] = "idle"
    /\ \E infosValid \in BOOLEAN, user_id \in UserIds, booking_id \in DOMAIN bookings \cup {NoId}, menus \in MenuLists :
        /\ op = "take_away" => booking_id = NoId
        /\ IF ~infosValid
           THEN /\ pc' = [pc EXCEPT ![p] = AfterOrderAdd(op, ModelError(400, {"additional_infos"}))]
                /\ loc' = [loc EXCEPT ![p] = [NoLoc EXCEPT !.op = op]]
                /\ result' = [result EXCEPT ![p] = ModelError(400, IF op = "order" THEN {"additional_infos"} ELSE {})]
                /\ UNCHANGED orders
           ELSE IF Not(UserGetById(user_id))
           THEN /\ pc' = [pc EXCEPT ![p] = AfterOrderAdd(op, ModelError(400, {}))]
                /\ loc' = [loc EXCEPT ![p] = [NoLoc EXCEPT !.op = op, !.user_id = user_id]]
                /\ result' = [result EXCEPT ![p] = ModelError(400, {})]
                /\ UNCHANGED orders
           ELSE \/ /\ CanInsertOrder
                   /\ orders' = SqlInsert(orders, [booking_id |-> booking_id,
                                                   total_price |-> OrderPrice(menus)])
                   /\ pc' = [pc EXCEPT ![p] = "order_menus"]
                   /\ loc' = [loc EXCEPT ![p] = [NoLoc EXCEPT !.op = op, !.order_id = NextId(orders),
                                                   !.user_id = user_id,
                                                   !.booking_id = booking_id, !.todo = menus,
                                                   !.benefits = IF op = "take_away" THEN TakeAwayBenefits(menus) ELSE 0]]
                   /\ UNCHANGED result
                \/ /\ user_id \notin Users
                   /\ pc' = [pc EXCEPT ![p] = "done"]
                   /\ loc' = [loc EXCEPT ![p] = [NoLoc EXCEPT !.op = op, !.user_id = user_id]]
                   /\ result' = [result EXCEPT ![p] = Thrown]
                   /\ UNCHANGED orders
    /\ UNCHANGED <<measurements, menu_ingredients, stock_statistics, menus_statistics, tables, bookings, orders_menus, stocks, sales_statistics>>

\* POST /orders: Order.add(db, booking_id, user_id, additional_infos, menus, is_take_away)
OrderAdd(p) == OrderAddInsert(p, "order")

\* Payment.payTakeAway: Order.add(db, null, user_id, additional_infos, menus, true)
payTakeAway(p) == OrderAddInsert(p, "take_away")

\* the ingredients of a menu list, menu after menu
RECURSIVE Ingredients(_)
Ingredients(menus) ==
    IF menus = <<>> THEN <<>> ELSE MenuIngredients[Head(menus)] \o Ingredients(Tail(menus))

\* OrderMenus.addMultiple: INSERT INTO orders_menus(order_id, menu_id) VALUES
\* (?, ?), ...; with no menu the statement has an empty VALUES list and the
\* query is rejected.  Stock.reduce(db, menus) follows.
OrderMenusAddMultiple(p) ==
    /\ pc[p] = "order_menus"
    /\ LET menus == loc[p].todo
       IN  IF menus = <<>>
           THEN /\ pc' = [pc EXCEPT ![p] = "done"]
                /\ result' = [result EXCEPT ![p] = Thrown]
                /\ UNCHANGED <<orders_menus, loc>>
           ELSE /\ orders_menus' = orders_menus \o
                        [i \in 1..Len(menus) |-> [order_id |-> loc[p].order_id, menu_id |-> menus[i]]]
                /\ pc' = [pc EXCEPT ![p] = "stock_reduce"]
                /\ loc' = [loc EXCEPT ![p].todo = Ingredients(menus)]
                /\ UNCHANGED result
    /\ UNCHANGED <<measurements, menu_ingredients, stock_statistics, menus_statistics, tables, bookings, orders, stocks, sales_statistics>>

\* Order.getByBookingId: the orders tied to a booking
OrderGetByBookingId(booking_id) ==
    {o \in DOMAIN orders : orders[o].booking_id = booking_id}

RECURSIVE SumTotalPrice(_)
SumTotalPrice(ids) ==
    IF ids = {} THEN 0
    ELSE LET o == CHOOSE x \in ids : TRUE
         IN  orders[o].total_price + SumTotalPrice(ids \ {o})

----------------------------------------------------------------------------
(* models/Stock *)

\* Stock.update with only `units` supplied: a truthy quantity must be a
\* number >= 0
StockUpdateRequest(p, quantities, unit_ids) ==
    /\ pc[p] = "idle"
    /\ \E stock_id \in StockIds, units \in quantities, units_unit_id \in unit_ids :
        /\ loc' = [loc EXCEPT ![p] = [NoLoc EXCEPT !.op = "stock_update"]]
        /\ IF units.t = "num" /\ StockUnitsRejected(units.v)
           THEN /\ result' = [result EXCEPT ![p] = ModelError(400, {"units"})]
                /\ UNCHANGED stocks
           ELSE /\ stocks' = SqlUpdate(stocks, stock_id,
                                getFieldsToUpdate([name |-> JNull, units |-> units,
                                                   units_unit_id |-> units_unit_id, unit_price |-> JNull]))
                /\ result' = [result EXCEPT ![p] = Ok]
    /\ pc' = [pc EXCEPT ![p] = "done"]
    /\ UNCHANGED <<measurements, menu_ingredients, stock_statistics, menus_statistics, tables, bookings, orders, orders_menus, sales_statistics>>

\* Stock.update of the quantity on hand
StockUpdate(p) == StockUpdateRequest(p, {JNum(units) : units \in (0 - 1)..MaxUnits}, {JNull})

\* Stock.reduce, one ingredient at a time: the quantity on hand is
\* decremented in one statement, and a consumption above the quantity on
\* hand is either rejected or clamps the quantity to zero
StockReduce(p) ==
    /\ pc[p] = "stock_reduce"
    /\ IF loc[p].todo = <<>>
       THEN /\ pc' = [pc EXCEPT ![p] = AfterOrderAdd(loc[p].op, Ok)]
            /\ result' = [result EXCEPT ![p] = IF loc[p].op = "take_away" THEN @ ELSE Ok]
            /\ UNCHANGED <<stocks, loc>>
       ELSE LET item == Head(loc[p].todo)
            IN  IF stocks[item.stock_id].units >= item.units
                THEN /\ stocks' = [stocks EXCEPT ![item.stock_id].units = @ - item.units]
                     /\ loc' = [loc EXCEPT ![p].todo = Tail(@)]
                     /\ UNCHANGED <<pc, result>>
                ELSE \/ /\ stocks' = [stocks EXCEPT ![item.stock_id].units = 0]
                        /\ loc' = [loc EXCEPT ![p].todo = Tail(@)]
                        /\ UNCHANGED <<pc, result>>
                     \/ /\ pc' = [pc EXCEPT ![p] = AfterOrderAdd(loc[p].op, ModelError(400, {}))]
                        /\ result' = [result EXCEPT ![p] = ModelError(400, {})]
                        /\ UNCHANGED <<stocks, loc>>
    /\ UNCHANGED <<measurements, menu_ingredients, stock_statistics, menus_statistics, tables, bookings, orders, orders_menus, sales_statistics>>

----------------------------------------------------------------------------
(* models/Payment *)

\* booking.table_id in payBooking: the property the full booking lacks
BookingTableIdProperty(booking) ==
    IF "table_id" \in DOMAIN booking THEN booking.table_id ELSE NoId

\* Payment.payBooking: if (booking.is_finished)
AlreadyFinished_Never(booking) == FALSE

AlreadyFinished(booking) == booking.is_finished # 0

\* Payment.payBooking recording the sales before it marks the booking
PayBookingFirst_Sales == "pay_orders"

\* Payment.payBooking: the first query after the tests of the booking is
\* the Booking.update that marks it
PayBookingFirst == "pay_mark"

\* Payment.payBooking up to Booking.getById and the is_finished test
PayBookingGet(p) ==
    /\ pc[p] = "idle"
    /\ \E booking_id \in 1..MaxBookings :
        LET booking == BookingGetById(booking_id)
            l == [NoLoc EXCEPT !.op = "pay", !.booking_id = booking_id]
        IN  IF IsModelError(booking)
            THEN /\ pc' = [pc EXCEPT ![p] = "done"]
                 /\ loc' = [loc EXCEPT ![p] = l]
                 /\ result' = [result EXCEPT ![p] = ModelError(400, {})]
            ELSE IF AlreadyFinished(booking)
            THEN /\ pc' = [pc EXCEPT ![p] = "done"]
                 /\ loc' = [loc EXCEPT ![p] = l]
                 /\ result' = [result EXCEPT ![p] = ModelError(400, {})]
            ELSE /\ pc' = [pc EXCEPT ![p] = PayBookingFirst]
                 /\ loc' = [loc EXCEPT ![p] = [l EXCEPT !.table_id = BookingTableIdProperty(booking)]]
                 /\ UNCHANGED result
    /\ UNCHANGED db

\* Payment.payBooking: Booking.update(db, booking_id, null, null, null, false, false, true, true)
PayBookingMark(p) ==
    /\ pc[p] = "pay_mark"
    /\ bookings' = SqlUpdate(bookings, loc[p].booking_id,
                        BookingUpdateFields(JNull, JNull, JNull, JBool(FALSE), JBool(FALSE),
                                            JBool(TRUE), JBool(TRUE)))
    /\ pc' = [pc EXCEPT ![p] = "pay_free"]
    /\ UNCHANGED <<measurements, menu_ingredients, stock_statistics, menus_statistics, tables, orders, orders_menus, stocks, sales_statistics, loc, result>>

\* Payment.payBooking: Table.update(db, booking.table_id, null, null, true, null).
\* The id is undefined: the driver either rejects the undefined parameter
\* (the handler throws) or binds it as NULL (the UPDATE matches no row).
PayBookingFree(p) ==
    /\ pc[p] = "pay_free"
    /\ \/ /\ loc[p].table_id = NoId
          /\ pc' = [pc EXCEPT ![p] = "done"]
          /\ result' = [result EXCEPT ![p] = Thrown]
          /\ UNCHANGED tables
       \/ /\ tables' = SqlUpdate(tables, loc[p].table_id,
                            TableUpdateFields(JNull, JNull, JBool(TRUE), JNull))
          /\ pc' = [pc EXCEPT ![p] = "pay_orders"]
          /\ UNCHANGED result
    /\ UNCHANGED <<measurements, menu_ingredients, stock_statistics, menus_statistics, bookings, orders, orders_menus, stocks, sales_statistics, loc>>

\* Payment.payBooking: Order.getByBookingId and the sum of total_price
PayBookingOrders(p) ==
    /\ pc[p] = "pay_orders"
    /\ loc' = [loc EXCEPT ![p].benefits = SumTotalPrice(OrderGetByBookingId(loc[p].booking_id))]
    /\ pc' = [pc EXCEPT ![p] = "stat_select"]
    /\ UNCHANGED <<db, result>>

----------------------------------------------------------------------------

----------------------------------------------------------------------------
(* models/Measurement *)

\* the conversions table: every entry multiplies the quantity in the
\* reference unit (kg or L) by a fixed factor.  The factors of oz, lb and
\* fl-oz are those of convert-units, to three decimals.
conversions ==
    [name \in {"kg", "L", "qt"} |-> Frac(1, 1)]
    @@ [name \in {"g", "mL"} |-> Frac(1000, 1)]
    @@ ("mg" :> Frac(1000000, 1)) @@ ("cL" :> Frac(100, 1))
    @@ ("oz" :> Frac(35274, 1000)) @@ ("lb" :> Frac(2205, 1000)) @@ ("fl-oz" :> Frac(33814, 1000))
    @@ [name \in {"cuill. cafe", "pincee"} |-> Frac(1000, 5)]
    @@ [name \in {"cuill. soupe", "noix"} |-> Frac(1000, 15)]
    @@ ("noisette" :> Frac(1000, 4)) @@ ("stick de beurre" :> Frac(1000, 113))
    @@ ("1 cup" :> Frac(1000, 250)) @@ ("1/2 cup" :> Frac(1000, 125))
    @@ ("1/3 cup" :> Frac(1000, 80)) @@ ("1/4 cup" :> Frac(1000, 60))

\* Object.prototype.hasOwnProperty.call(conversions, name)
hasOwnConversion(name) == name \in DOMAIN conversions

\* an UnbuiltMeasurement: a row of measurement_units_types with the name of
\* its unit and of its type; as_ref_unit is how much of the reference unit
\* of the type one unit is
UnbuiltMeasurement(name, type_name, as_ref_unit) == [name |-> name, type_name |-> type_name, as_ref_unit |-> as_ref_unit]

\* the content of the measurement tables, which no model writes: the units
\* of mass and of volume, a unit of the type "autre", a unit of volume the
\* conversions table does not list (dL), and the quart, which the
\* conversions table takes for a litre
QuartAsRefUnit == {Frac(1, 1), Frac(946, 1000)}
MeasurementRows(quart) ==
    { UnbuiltMeasurement("kg", "masse", Frac(1, 1)),
      UnbuiltMeasurement("g", "masse", Frac(1, 1000)),
      UnbuiltMeasurement("mg", "masse", Frac(1, 1000000)),
      UnbuiltMeasurement("L", "volume", Frac(1, 1)),
      UnbuiltMeasurement("cL", "volume", Frac(1, 100)),
      UnbuiltMeasurement("mL", "volume", Frac(1, 1000)),
      UnbuiltMeasurement("dL", "volume", Frac(1, 10)),
      UnbuiltMeasurement("1 cup", "volume", Frac(250, 1000)),
      UnbuiltMeasurement("qt", "volume", quart),
      UnbuiltMeasurement("botte", "autre", Frac(1, 1)) }
InitMeasurements == {MeasurementRows(quart) : quart \in QuartAsRefUnit}
PlainMeasurements == MeasurementRows(Frac(946, 1000))

\* the unit names and the values a conversion is asked for: the registered
\* names, a name of the conversions table that is not registered, and a
\* name that is neither
UnitNames == {m.name : m \in PlainMeasurements} \cup {"oz", "pinte"}
ConvertValues == {NaN, Frac(0, 1), Frac(1, 2), Frac(1, 1), Frac(1000, 1)}

Converted(value) == [kind |-> "value", code |-> 200, fields |-> {}, value |-> value]
MeasurementError(message) == [kind |-> "error", code |-> 400, fields |-> {}, message |-> message]

\* Measurement.getByName: the rows the query may put first, or the error.
\* buildMeasurement keeps the unit's name and as_ref_unit and the type's name.
getByName(rows, name) ==
    IF \E m \in rows : m.name = name
    THEN {m \in rows : m.name = name}
    ELSE {MeasurementError("not_found")}

\* Measurement.convert without the shortcut of equal names
SameUnit_Never(from, to) == FALSE

\* Measurement.convert: from === to
SameUnit(from, to) == from = to

\* Measurement.convert without the test of the type "autre"
IsOtherType_Never(unit) == FALSE

\* Measurement.convert: unit.type.name === "autre"
IsOtherType(unit) == unit.type_name = "autre"

\* Measurement.convert answering a unit the conversions table does not list
\* with the quantity in the reference unit
convertUnits_RefFallback(value, fromUnit, toUnit) ==
    IF "message" \in DOMAIN fromUnit THEN fromUnit
    ELSE IF "message" \in DOMAIN toUnit THEN toUnit
    ELSE IF IsOtherType(fromUnit) THEN MeasurementError("not_convertible")
    ELSE IF IsOtherType(toUnit) THEN MeasurementError("not_convertible")
    ELSE IF ~hasOwnConversion(toUnit.name) THEN Converted(Times(value, fromUnit.as_ref_unit))
    ELSE Converted(Times(Times(value, fromUnit.as_ref_unit), conversions[toUnit.name]))

\* Measurement.convert after the two getByName
convertUnits(value, fromUnit, toUnit) ==
    IF "message" \in DOMAIN fromUnit THEN fromUnit
    ELSE IF "message" \in DOMAIN toUnit THEN toUnit
    ELSE IF IsOtherType(fromUnit) THEN MeasurementError("not_convertible")
    ELSE IF IsOtherType(toUnit) THEN MeasurementError("not_convertible")
    ELSE IF ~hasOwnConversion(toUnit.name) THEN MeasurementError("unable_to_convert")
    ELSE Converted(Times(Times(value, fromUnit.as_ref_unit), conversions[toUnit.name]))

\* Measurement.convert(db, value, from, to): the values it may return
convert(rows, value, from, to) ==
    IF SameUnit(from, to)
    THEN {Converted(value)}
    ELSE {convertUnits(value, fromUnit, toUnit) : fromUnit \in getByName(rows, from), toUnit \in getByName(rows, to)}

\* POST /measurements/convert
MeasurementConvert(p) ==
    /\ pc[p] = "idle"
    /\ \E value \in ConvertValues, from \in UnitNames, to \in UnitNames :
        /\ result' \in {[result EXCEPT ![p] = r] : r \in convert(measurements, value, from, to)}
        /\ loc' = [loc EXCEPT ![p] = [NoLoc EXCEPT !.op = "convert", !.value = value, !.from = from, !.to = to]]
    /\ pc' = [pc EXCEPT ![p] = "done"]
    /\ UNCHANGED db

----------------------------------------------------------------------------
(* models/Menu *)

\* the units, the stock names and the quantities of the ingredient requests;
\* a unit id is given by the name of the unit and a stock name by a number,
\* the last one being the name of no stock item at first
IngredientMenus == {1}
IngredientUnits == {"kg", "g", "L"}
StockNames == StockIds \cup {Cardinality(StockIds) + 1}
NoUnit == "NULL"

\* Stock.update of the unit of a stock item
StockUpdateUnit(p) == StockUpdateRequest(p, {JNull}, {JStr(unit) : unit \in IngredientUnits})

\* Measurement.getById: the measurement of the unit, or the error
MeasurementGetById(rows, unit_id) ==
    IF \E m \in rows : m.name = unit_id
    THEN {m \in rows : m.name = unit_id}
    ELSE {MeasurementError("not_found")}

\* Stock.getByName: the stock items the query may put first
StockGetByName(name) == {stock_id \in DOMAIN stocks : stocks[stock_id].name = name}

\* ingredientMeasurement.type.name !== stockMeasurement.type.name
TypesDiffer(ingredientMeasurement, stockMeasurement) ==
    ingredientMeasurement.type_name # stockMeasurement.type_name

\* a menu_ingredients row may still be inserted within the bound
CanInsertIngredient == Cardinality(DOMAIN menu_ingredients) < MaxIngredients

\* the end of addIngredient and of updateIngredient once the stock item is
\* known: the check of the two measurement types, then the write
IngredientCheckAndWrite(p, stockRows, stockId, units_unit_id, written) ==
    \E ingredientMeasurement \in MeasurementGetById(measurements, units_unit_id),
       stockMeasurement \in MeasurementGetById(measurements, stockRows[stockId].units_unit_id) :
        /\ stocks' = stockRows
        /\ IF "message" \in DOMAIN ingredientMeasurement \/ "message" \in DOMAIN stockMeasurement
           THEN /\ result' = [result EXCEPT ![p] = Thrown]
                /\ UNCHANGED menu_ingredients
           ELSE IF TypesDiffer(ingredientMeasurement, stockMeasurement)
           THEN /\ result' = [result EXCEPT ![p] = ModelError(400, {})]
                /\ UNCHANGED menu_ingredients
           ELSE /\ menu_ingredients' = written
                /\ result' = [result EXCEPT ![p] = Ok]

\* Menu.addIngredient, its queries run without another request between them
MenuAddIngredient(p) ==
    /\ pc[p] = "idle"
    /\ CanInsertIngredient
    /\ \E menu_id \in IngredientMenus, name \in StockNames, units \in {0 - 1, 1},
          units_unit_id \in IngredientUnits :
        IF ~isGreaterThan(Frac(units, 1), Frac(0, 1), TRUE)
        THEN /\ result' = [result EXCEPT ![p] = ModelError(400, {"units"})]
             /\ UNCHANGED <<stocks, menu_ingredients>>
        ELSE LET found == StockGetByName(name)
                 stockRows == IF found = {}
                              THEN SqlInsert(stocks, [name |-> name, units |-> 0, units_unit_id |-> units_unit_id])
                              ELSE stocks
             IN  \E stockId \in (IF found = {} THEN {NextId(stocks)} ELSE found) :
                    IngredientCheckAndWrite(p, stockRows, stockId, units_unit_id,
                        SqlInsert(menu_ingredients, [menu_id |-> menu_id, stock_id |-> stockId,
                                                     units |-> units, units_unit_id |-> units_unit_id]))
    /\ loc' = [loc EXCEPT ![p] = [NoLoc EXCEPT !.op = "add_ingredient"]]
    /\ pc' = [pc EXCEPT ![p] = "done"]
    /\ UNCHANGED <<measurements, stock_statistics, menus_statistics, tables, bookings, orders, orders_menus, sales_statistics>>

\* Menu.updateIngredient, its queries run without another request between
\* them.  Without a name Stock.add refuses the new item and the handler
\* throws on the stock item it did not get; without a unit the stock item
\* of a new name is inserted with no unit, or refused by the store, and
\* the handler throws on the measurement it did not get
MenuUpdateIngredient(p) ==
    /\ pc[p] = "idle"
    /\ \E ingredient_id \in 1..MaxIngredients, name \in {JNull} \cup {JNum(n) : n \in StockNames},
          units \in {JNull, JNum(0 - 1), JNum(1)},
          units_unit_id \in {JNull} \cup {JStr(unit) : unit \in IngredientUnits} :
        IF units.t = "num" /\ StockUnitsRejected(units.v)
        THEN /\ result' = [result EXCEPT ![p] = ModelError(400, {"units"})]
             /\ UNCHANGED <<stocks, menu_ingredients>>
        ELSE IF name = JNull
        THEN /\ result' = [result EXCEPT ![p] = Thrown]
             /\ UNCHANGED <<stocks, menu_ingredients>>
        ELSE LET found == StockGetByName(name.v)
                 unit == IF units_unit_id = JNull THEN NoUnit ELSE units_unit_id.v
                 stockRows == IF found = {}
                              THEN SqlInsert(stocks, [name |-> name.v, units |-> 0, units_unit_id |-> unit])
                              ELSE stocks
             IN  \/ \E stockId \in (IF found = {} THEN {NextId(stocks)} ELSE found) :
                        IngredientCheckAndWrite(p, stockRows, stockId, unit,
                            SqlUpdate(menu_ingredients, ingredient_id,
                                getFieldsToUpdate([stock_id |-> JNum(stockId), units |-> units,
                                                   units_unit_id |-> units_unit_id])))
                 \/ /\ found = {} /\ units_unit_id = JNull
                    /\ result' = [result EXCEPT ![p] = Thrown]
                    /\ UNCHANGED <<stocks, menu_ingredients>>
    /\ loc' = [loc EXCEPT ![p] = [NoLoc EXCEPT !.op = "update_ingredient"]]
    /\ pc' = [pc EXCEPT ![p] = "done"]
    /\ UNCHANGED <<measurements, stock_statistics, menus_statistics, tables, bookings, orders, orders_menus, sales_statistics>>

\* the rows Menu.getById hands to buildMenus: the ingredients of the menu,
\* in any order (the query has no ORDER BY)
MenuRows(menu_id) ==
    LET ids == {i \in DOMAIN menu_ingredients : menu_ingredients[i].menu_id = menu_id}
    IN  {order \in [1..Cardinality(ids) -> ids] :
            \A i, j \in 1..Cardinality(ids) : i # j => order[i] # order[j]}

\* buildMenus: stock.units / quantityConversion for one ingredient; a
\* conversion that is a ModelError makes the quotient NaN
HowMuchOfIngredient(ingredient) ==
    LET stock == stocks[ingredient.stock_id]
    IN  {IF "value" \in DOMAIN quantityConversion
         THEN Div(Frac(stock.units, 1), quantityConversion.value)
         ELSE NaN :
            quantityConversion \in convert(measurements, Frac(ingredient.units, 1),
                                           ingredient.units_unit_id, stock.units_unit_id)}

\* buildMenus: if (!fullMenu.how_much) fullMenu.how_much = howMuch;
\* else if (howMuch < fullMenu.how_much) fullMenu.how_much = Math.floor(howMuch);
HowMuchStep(how_much, howMuch) ==
    IF how_much = JNull THEN JNum(howMuch)
    ELSE IF how_much.v.d = 0 \/ how_much.v.n = 0 THEN JNum(howMuch)
    ELSE IF Less(howMuch, how_much.v) THEN JNum(Floor(howMuch))
    ELSE how_much

\* buildMenus over the rows of one menu: the values how_much may end with
RECURSIVE buildHowMuch(_, _)
buildHowMuch(order, how_much) ==
    IF order = <<>> THEN {how_much}
    ELSE UNION {buildHowMuch(Tail(order), HowMuchStep(how_much, howMuch)) :
                    howMuch \in HowMuchOfIngredient(menu_ingredients[Head(order)])}

\* Menu.getById: the full menu buildMenus returns, by its how_much
MenuGetById(p) ==
    /\ pc[p] = "idle"
    /\ \E menu_id \in IngredientMenus : \E order \in MenuRows(menu_id) :
        \E how_much \in buildHowMuch(order, JNull) :
            /\ result' = [result EXCEPT ![p] = [kind |-> "menu", code |-> 200, fields |-> {}, how_much |-> how_much]]
            /\ loc' = [loc EXCEPT ![p] = [NoLoc EXCEPT !.op = "menu", !.todo = order]]
    /\ pc' = [pc EXCEPT ![p] = "done"]
    /\ UNCHANGED db

----------------------------------------------------------------------------
(* models/StockStatistics, models/MenusStatistics *)

\* the `day` of a row: the current day, or one before it
Today == "today"
EarlierDay == "earlier"

\* the quantities and the counts the statistics are given: a number, or a
\* value that is not one; a count left out is 0
StatUnits == {JNull} \cup {JNum(units) : units \in 0..MaxUnits}
StatCounts == {JUndefined, JNull, JNum(1)}

\* getTodayByStockId, getTodayByMenuId: a row of the day for the item, or
\* NoId for the ModelError
TodayStatOf(rows, key, id) ==
    IF \E i \in DOMAIN rows : rows[i].day = Today /\ rows[i][key] = id
    THEN {i \in DOMAIN rows : rows[i].day = Today /\ rows[i][key] = id}
    ELSE {NoId}

\* UPDATE stock_statistics SET units = ? WHERE stock_id = ?
SetStockStat(rows, stock_id, units) ==
    [i \in DOMAIN rows |-> IF rows[i].stock_id = stock_id THEN [rows[i] EXCEPT !.units = units] ELSE rows[i]]

\* UPDATE menus_statistics SET count = count + ? WHERE menu_id = ?
AddMenuStat(rows, menu_id, count) ==
    [i \in DOMAIN rows |-> IF rows[i].menu_id = menu_id THEN [rows[i] EXCEPT !.count = @ + count] ELSE rows[i]]

\* StockStatistics.add up to the SELECT of getTodayByStockId
StockStatisticsAdd(p) ==
    /\ pc[p] = "idle"
    /\ \E stock_id \in StockIds, units \in StatUnits :
        IF units.t # "num"
        THEN /\ pc' = [pc EXCEPT ![p] = "done"]
             /\ loc' = [loc EXCEPT ![p] = [NoLoc EXCEPT !.op = "stock_stat"]]
             /\ result' = [result EXCEPT ![p] = ModelError(400, {})]
        ELSE \E todayStat \in TodayStatOf(stock_statistics, "stock_id", stock_id) :
             /\ pc' = [pc EXCEPT ![p] = IF todayStat = NoId THEN "stock_stat_insert" ELSE "stock_stat_update"]
             /\ loc' = [loc EXCEPT ![p] = [NoLoc EXCEPT !.op = "stock_stat", !.stat_id = stock_id, !.benefits = units.v]]
             /\ UNCHANGED result
    /\ UNCHANGED db

\* StockStatistics.add: the INSERT or the UPDATE
StockStatisticsWrite(p) ==
    /\ pc[p] \in {"stock_stat_insert", "stock_stat_update"}
    /\ stock_statistics' =
            IF pc[p] = "stock_stat_insert"
            THEN SqlInsert(stock_statistics, [stock_id |-> loc[p].stat_id, day |-> Today, units |-> loc[p].benefits])
            ELSE SetStockStat(stock_statistics, loc[p].stat_id, loc[p].benefits)
    /\ pc' = [pc EXCEPT ![p] = "done"]
    /\ result' = [result EXCEPT ![p] = Ok]
    /\ UNCHANGED <<measurements, menu_ingredients, menus_statistics, tables, bookings, orders, orders_menus, stocks, sales_statistics, loc>>

\* the counts of a menu may still grow within the bound on the orders
CanCountMenu(menu_id, count) ==
    \A i \in DOMAIN menus_statistics :
        menus_statistics[i].menu_id = menu_id =>
            menus_statistics[i].count + (IF count.t = "num" THEN count.v ELSE 0) <= MaxOrders

\* MenusStatistics.add up to the SELECT of getTodayByMenuId
MenusStatisticsAdd(p) ==
    /\ pc[p] = "idle"
    /\ \E menu_id \in MenuIds, count \in StatCounts :
        /\ CanCountMenu(menu_id, count)
        /\ IF count.t \notin {"num", "undefined"}
           THEN /\ pc' = [pc EXCEPT ![p] = "done"]
                /\ loc' = [loc EXCEPT ![p] = [NoLoc EXCEPT !.op = "menu_stat"]]
                /\ result' = [result EXCEPT ![p] = ModelError(400, {})]
           ELSE \E todayStat \in TodayStatOf(menus_statistics, "menu_id", menu_id) :
                /\ pc' = [pc EXCEPT ![p] = IF todayStat = NoId THEN "menu_stat_insert" ELSE "menu_stat_update"]
                /\ loc' = [loc EXCEPT ![p] = [NoLoc EXCEPT !.op = "menu_stat", !.stat_id = menu_id,
                                             !.benefits = IF count.t = "num" THEN count.v ELSE 0]]
                /\ UNCHANGED result
    /\ UNCHANGED db

\* MenusStatistics.add: the INSERT or the UPDATE
MenusStatisticsWrite(p) ==
    /\ pc[p] \in {"menu_stat_insert", "menu_stat_update"}
    /\ menus_statistics' =
            IF pc[p] = "menu_stat_insert"
            THEN SqlInsert(menus_statistics, [menu_id |-> loc[p].stat_id, day |-> Today, count |-> loc[p].benefits])
            ELSE AddMenuStat(menus_statistics, loc[p].stat_id, loc[p].benefits)
    /\ pc' = [pc EXCEPT ![p] = "done"]
    /\ result' = [result EXCEPT ![p] = Ok]
    /\ UNCHANGED <<measurements, menu_ingredients, stock_statistics, tables, bookings, orders, orders_menus, stocks, sales_statistics, loc>>

\* The handler has answered the request
Return(p) ==
    /\ pc[p] = "done"
    /\ pc' = [pc EXCEPT ![p] = "idle"]
    /\ loc' = [loc EXCEPT ![p] = NoLoc]
    /\ result' = [result EXCEPT ![p] = NoResult]
    /\ UNCHANGED db

----------------------------------------------------------------------------

\* the restaurant at opening time: every table available, of either
\* capacity; the first table may be one that cannot be used (no handler
\* reads or writes can_be_used)
InitTables == {ts \in [TableIds -> [capacity : Capacities, is_available : {1}, can_be_used : {0, 1}]] : \A t \in TableIds : t > 1 => ts[t].can_be_used = 1}
InitStocks == {[s \in StockIds |-> [name |-> s, units |-> units[s], units_unit_id |-> "kg"]] : units \in [StockIds -> 0..MaxUnits]}

\* a restaurant whose tables all have the largest capacity and can be used
LargestCapacity == CHOOSE c \in Capacities : \A d \in Capacities : d <= c
PlainTables == [t \in TableIds |-> [capacity |-> LargestCapacity, is_available |-> 1, can_be_used |-> 1]]
\* a full stock
PlainStocks == [s \in StockIds |-> [name |-> s, units |-> MaxUnits, units_unit_id |-> "kg"]]

InitRest ==
    /\ measurements = PlainMeasurements
    /\ stock_statistics = <<>>
    /\ menus_statistics = <<>>
    /\ menu_ingredients = <<>>
    /\ bookings = <<>>
    /\ orders = <<>>
    /\ orders_menus = <<>>
    /\ sales_statistics = <<>>
    /\ pc = [p \in Procs |-> "idle"]
    /\ loc = [p \in Procs |-> NoLoc]
    /\ result = [p \in Procs |-> NoResult]

\* any set of tables, no order placed: bookings are made, paid and deleted
Init ==
    /\ tables \in InitTables
    /\ stocks = PlainStocks
    /\ InitRest

BookingStep(p) ==
    \/ BookingAddPlain(p)
    \/ BookingAddUpdate(p)
    \/ BookingAddInsert(p)
    \/ BookingDelete(p)

PaymentStep(p) ==
    \/ PayBookingGet(p)
    \/ PayBookingMark(p)
    \/ PayBookingFree(p)
    \/ PayBookingOrders(p)
    \/ AddBenefitsSelect(p)
    \/ addTodayStat(p)
    \/ AddBenefitsUpdate(p)

OrderStep(p) ==
    \/ OrderAdd(p)
    \/ OrderMenusAddMultiple(p)
    \/ StockReduce(p)

\* one request is handled at a time: a single handler runs
Next == \E p \in {"p1"} : BookingStep(p) \/ PaymentStep(p) \/ Return(p)

Spec == Init /\ [][Next]_vars

\* request handlers interleave at every query
ConcInit ==
    /\ tables = PlainTables
    /\ stocks = PlainStocks
    /\ InitRest

ConcNext == \E p \in Procs : BookingStep(p) \/ PaymentStep(p) \/ Return(p)

ConcSpec == ConcInit /\ [][ConcNext]_vars

\* the bookings of the parties of 2 seated at the first tables
SeatedCount == IF MaxBookings < NumTables THEN MaxBookings ELSE NumTables
SeatedTables == [t \in TableIds |-> [PlainTables[t] EXCEPT !.is_available = IF t <= SeatedCount THEN 0 ELSE 1]]
SeatedBookings == [b \in 1..SeatedCount |-> NewBooking(b, "future", Frac(2, 1))]

\* orders placed for seated parties and their payment, one request at a time
OrderInit ==
    /\ measurements = PlainMeasurements
    /\ stock_statistics = <<>>
    /\ menus_statistics = <<>>
    /\ menu_ingredients = <<>>
    /\ tables = SeatedTables
    /\ bookings = SeatedBookings
    /\ stocks = PlainStocks
    /\ orders = <<>>
    /\ orders_menus = <<>>
    /\ sales_statistics = <<>>
    /\ pc = [p \in Procs |-> "idle"]
    /\ loc = [p \in Procs |-> NoLoc]
    /\ result = [p \in Procs |-> NoResult]

OrderNext == \E p \in {"p1"} : PaymentStep(p) \/ payTakeAway(p) \/ OrderStep(p) \/ Return(p)

OrderSpec == OrderInit /\ [][OrderNext]_vars

\* orders and stock corrections against any stock, interleaved at every query
StockInit ==
    /\ tables = PlainTables
    /\ stocks \in InitStocks
    /\ InitRest

StockNext == \E p \in Procs : OrderStep(p) \/ StockUpdate(p) \/ Return(p)

StockSpec == StockInit /\ [][StockNext]_vars

\* bookings asked for any time and any party size, one request at a time
AddNext == \E p \in {"p1"} : BookingAddSelect(p) \/ BookingAddUpdate(p) \/ BookingAddInsert(p) \/ Return(p)

AddSpec == Init /\ [][AddNext]_vars

\* conversions asked against either content of the measurement tables
ConvertInit ==
    /\ measurements \in InitMeasurements
    /\ stock_statistics = <<>>
    /\ menus_statistics = <<>>
    /\ menu_ingredients = <<>>
    /\ tables = PlainTables
    /\ stocks = PlainStocks
    /\ bookings = <<>>
    /\ orders = <<>>
    /\ orders_menus = <<>>
    /\ sales_statistics = <<>>
    /\ pc = [p \in Procs |-> "idle"]
    /\ loc = [p \in Procs |-> NoLoc]
    /\ result = [p \in Procs |-> NoResult]

ConvertNext == \E p \in {"p1"} : MeasurementConvert(p) \/ Return(p)

ConvertSpec == ConvertInit /\ [][ConvertNext]_vars

\* updates of the tables, from any state of the tables
TableInit ==
    /\ tables \in {ts \in [TableIds -> [capacity : Capacities, is_available : {0, 1}, can_be_used : {0, 1}]] :
                      \A t \in TableIds : t > 1 => ts[t].can_be_used = 1}
    /\ stocks = PlainStocks
    /\ InitRest

TableNext == \E p \in {"p1"} : TableUpdate(p) \/ Return(p)

TableSpec == TableInit /\ [][TableNext]_vars

\* updates of the bookings of two seated parties
UpdateInit ==
    /\ measurements = PlainMeasurements
    /\ stock_statistics = <<>>
    /\ menus_statistics = <<>>
    /\ menu_ingredients = <<>>
    /\ tables = PlainTables
    /\ bookings = <<NewBooking(1, "future", Frac(2, 1)), NewBooking(2, "future", Frac(2, 1))>>
    /\ stocks = PlainStocks
    /\ orders = <<>>
    /\ orders_menus = <<>>
    /\ sales_statistics = <<>>
    /\ pc = [p \in Procs |-> "idle"]
    /\ loc = [p \in Procs |-> NoLoc]
    /\ result = [p \in Procs |-> NoResult]

UpdateNext == \E p \in {"p1"} : BookingUpdate(p) \/ Return(p)

UpdateSpec == UpdateInit /\ [][UpdateNext]_vars

\* payments of seated parties and updates that take the flags back
TerminalNext == \E p \in {"p1"} : PaymentStep(p) \/ BookingUpdateBack(p) \/ Return(p)

TerminalSpec == OrderInit /\ [][TerminalNext]_vars

\* ingredients added to a menu and changed, and stock items given another
\* unit, one request at a time
IngredientNext ==
    \E p \in {"p1"} : MenuAddIngredient(p) \/ MenuUpdateIngredient(p) \/ StockUpdateUnit(p) \/ Return(p)

IngredientSpec == ConcInit /\ [][IngredientNext]_vars

\* the menus built from any stock and any ingredients quantified in units
\* of mass
MenuIngredientRows == [menu_id : IngredientMenus, stock_id : StockIds, units : {1, 2}, units_unit_id : {"kg", "g"}]
MenuInit ==
    /\ tables = PlainTables
    /\ stocks \in InitStocks
    /\ menu_ingredients \in UNION {[1..n -> MenuIngredientRows] : n \in 0..MaxIngredients}
    /\ measurements = PlainMeasurements
    /\ stock_statistics = <<>>
    /\ menus_statistics = <<>>
    /\ bookings = <<>>
    /\ orders = <<>>
    /\ orders_menus = <<>>
    /\ sales_statistics = <<>>
    /\ pc = [p \in Procs |-> "idle"]
    /\ loc = [p \in Procs |-> NoLoc]
    /\ result = [p \in Procs |-> NoResult]

MenuNext == \E p \in {"p1"} : MenuGetById(p) \/ Return(p)

MenuSpec == MenuInit /\ [][MenuNext]_vars

\* the statistics of the day recorded after those of an earlier day, one
\* request at a time
StatInit ==
    /\ stock_statistics \in {[s \in StockIds |-> [stock_id |-> s, day |-> EarlierDay, units |-> units[s]]] :
                                units \in [StockIds -> 0..MaxUnits]}
    /\ menus_statistics = [m \in MenuIds |-> [menu_id |-> m, day |-> EarlierDay, count |-> 1]]
    /\ measurements = PlainMeasurements
    /\ menu_ingredients = <<>>
    /\ tables = PlainTables
    /\ stocks = PlainStocks
    /\ bookings = <<>>
    /\ orders = <<>>
    /\ orders_menus = <<>>
    /\ sales_statistics = <<>>
    /\ pc = [p \in Procs |-> "idle"]
    /\ loc = [p \in Procs |-> NoLoc]
    /\ result = [p \in Procs |-> NoResult]

StatNext ==
    \E p \in {"p1"} : StockStatisticsAdd(p) \/ StockStatisticsWrite(p) \/ MenusStatisticsAdd(p) \/ MenusStatisticsWrite(p) \/ Return(p)

StatSpec == StatInit /\ [][StatNext]_vars

\* one order of the first menu placed for every seated party
SeatedOrders == [o \in 1..SeatedCount |-> [booking_id |-> o, total_price |-> OrderPrice(<<1>>)]]
SeatedOrdersMenus == [o \in 1..SeatedCount |-> [order_id |-> o, menu_id |-> 1]]

\* payments of seated parties that have ordered, interleaved at every query
PayConcInit ==
    /\ measurements = PlainMeasurements
    /\ stock_statistics = <<>>
    /\ menus_statistics = <<>>
    /\ menu_ingredients = <<>>
    /\ tables = SeatedTables
    /\ bookings = SeatedBookings
    /\ stocks = PlainStocks
    /\ orders = SeatedOrders
    /\ orders_menus = SeatedOrdersMenus
    /\ sales_statistics = <<>>
    /\ pc = [p \in Procs |-> "idle"]
    /\ loc = [p \in Procs |-> NoLoc]
    /\ result = [p \in Procs |-> NoResult]

PayConcNext == \E p \in Procs : PaymentStep(p) \/ Return(p)

PayConcSpec == PayConcInit /\ [][PayConcNext]_vars

----------------------------------------------------------------------------
(* Properties *)

Done(p, op) == pc[p] = "done" /\ loc[p].op = op

\* the tables a party of clients_nb can be given
Fitting(clients_nb) ==
    {t \in TableIds : tables[t].is_available = 1 /\ SqlAtLeast(tables[t].capacity, clients_nb)}

\* C1: every successful Booking.add is given a table that was available,
\* is large enough for the party and is the smallest such table at the time
\* of the selection, and the table is unavailable when the call returns.
C1_AllocatesSmallestFitting ==
    [][\A p \in Procs :
        /\ (pc[p] = "idle" /\ pc'[p] = "add_update") =>
            LET t == loc'[p].table_id
            IN  /\ t \in Fitting(loc'[p].clients_nb)
                /\ \A u \in Fitting(loc'[p].clients_nb) : tables[t].capacity <= tables[u].capacity
        /\ (pc[p] = "add_insert" /\ pc'[p] = "done") =>
            /\ result'[p] = Ok
            /\ loc'[p].booking_id \in DOMAIN bookings' \ DOMAIN bookings
            /\ bookings'[loc'[p].booking_id].table_id = loc[p].table_id
            /\ tables'[loc[p].table_id].is_available = 0
      ]_vars

\* a booking was made while a larger table was available too
C1_Witness ==
    \E p \in Procs, u \in TableIds :
        /\ Done(p, "add") /\ result[p] = Ok
        /\ tables[u].is_available = 1
        /\ tables[u].capacity > tables[loc[p].table_id].capacity

\* C2: two Booking.add requests that run concurrently are never given the
\* same table.
C2_NoTableGivenTwice ==
    \A b1, b2 \in DOMAIN bookings :
        b1 # b2 => bookings[b1].table_id # bookings[b2].table_id

\* C3: no booking is given a table whose can_be_used flag is false.
C3_OnlyUsableTables ==
    \A b \in DOMAIN bookings : tables[bookings[b].table_id].can_be_used = 1

\* C4: when no available table is large enough for the party, Booking.add
\* returns an error, inserts no booking and changes no table.
C4_NoTableNoEffect ==
    [][\A p \in Procs :
        (/\ pc[p] = "idle" /\ pc'[p] # "idle" /\ loc'[p].op = "add"
         /\ Fitting(loc'[p].clients_nb) = {})
        => (/\ pc'[p] = "done"
            /\ IsModelError(result'[p])
            /\ bookings' = bookings
            /\ tables' = tables)
      ]_vars

\* a party that fits a table of the restaurant was refused because every
\* table large enough is taken
C4_Witness ==
    \E p \in Procs :
        /\ Done(p, "add") /\ IsModelError(result[p])
        /\ loc[p].clients_nb = Frac(3, 1)
        /\ \E t \in TableIds : SqlAtLeast(tables[t].capacity, loc[p].clients_nb)
        /\ Fitting(loc[p].clients_nb) = {}

\* C5: after a successful payBooking(b) the table of booking b is available.
C5_PaidBookingFreesTable ==
    \A p \in Procs :
        (Done(p, "pay") /\ result[p] = Ok)
        => tables[bookings[loc[p].booking_id].table_id].is_available = 1

RECURSIVE BenefitsUpTo(_, _)
BenefitsUpTo(rows, n) ==
    IF n = 0 THEN 0
    ELSE (IF n \in DOMAIN rows THEN rows[n].benefits ELSE 0) + BenefitsUpTo(rows, n - 1)

TodayBenefits(rows) == BenefitsUpTo(rows, MaxOrders + MaxBookings + 1)

\* the total price of the orders of a booking
RECURSIVE PriceUpTo(_, _)
PriceUpTo(booking_id, n) ==
    IF n = 0 THEN 0
    ELSE (IF n \in DOMAIN orders /\ orders[n].booking_id = booking_id
          THEN orders[n].total_price ELSE 0) + PriceUpTo(booking_id, n - 1)

\* C7: a successful payBooking(b) increases the benefits of the day by
\* exactly the sum of total_price over the orders of booking b: its last
\* step adds that sum and no other step of the call changes the benefits.
C7_PayAddsOrdersTotal ==
    [][\A p \in Procs :
        loc[p].op = "pay" =>
            IF pc[p] = "stat_update" /\ pc'[p] = "done"
            THEN /\ result'[p] = Ok
                 /\ TodayBenefits(sales_statistics') =
                        TodayBenefits(sales_statistics) + PriceUpTo(loc[p].booking_id, MaxOrders)
            ELSE TodayBenefits(sales_statistics') = TodayBenefits(sales_statistics)
      ]_vars

\* a booking with two orders was paid
C7_Witness ==
    \E p \in Procs :
        /\ Done(p, "pay") /\ result[p] = Ok
        /\ Cardinality({o \in DOMAIN orders : orders[o].booking_id = loc[p].booking_id
                                               /\ orders[o].total_price > 0}) >= 2
        /\ TodayBenefits(sales_statistics) >= PriceUpTo(loc[p].booking_id, MaxOrders)

\* C8: Booking.delete(b) sets the table of booking b available and removes
\* booking b.
C8_DeleteFreesTable ==
    [][\A p \in Procs :
        (/\ pc[p] = "idle" /\ pc'[p] = "done" /\ loc'[p].op = "delete"
         /\ loc'[p].booking_id \in DOMAIN bookings)
        => (/\ tables'[bookings[loc'[p].booking_id].table_id].is_available = 1
            /\ loc'[p].booking_id \notin DOMAIN bookings')
      ]_vars

\* C9: the table of a booking is released exactly once: payBooking sets it
\* available when it finishes the booking, and a later Booking.delete of the
\* finished booking does not change the table again.
C9_ReleasedExactlyOnce ==
    [][\A p \in Procs :
        /\ (pc[p] = "pay_free" /\ pc'[p] = "pay_orders") =>
            LET t == bookings[loc[p].booking_id].table_id
            IN  tables[t].is_available = 0 /\ tables'[t].is_available = 1
        /\ (/\ pc[p] = "idle" /\ pc'[p] = "done" /\ loc'[p].op = "delete"
            /\ loc'[p].booking_id \in DOMAIN bookings
            /\ bookings[loc'[p].booking_id].is_finished = 1) => tables' = tables
      ]_vars

UnitsNamed(name) == {m \in measurements : m.name = name}

\* C11: a conversion between two units of different measurement types (kg
\* to mL) is answered with an error, never with a number, whatever the value
C11_DifferentTypesRefused ==
    \A p \in Procs : Done(p, "convert") =>
        \A fromUnit \in UnitsNamed(loc[p].from), toUnit \in UnitsNamed(loc[p].to) :
            fromUnit.type_name # toUnit.type_name => result[p].kind = "error"

\* C12: convert(value, u, u) is value itself for every unit name u, registered
\* or not, convertible or not, listed in the conversions table or not
C12_SameUnitIdentity ==
    \A p \in Procs : Done(p, "convert") /\ loc[p].from = loc[p].to =>
        result[p] = Converted(loc[p].value)

C12_Witness ==
    \E p \in Procs : /\ Done(p, "convert") /\ loc[p].from = loc[p].to
                     /\ UnitsNamed(loc[p].from) = {}
                     /\ result[p] = Converted(Frac(1000, 1))

\* C13 as stated: with from different from to, a unit of the type "autre" on
\* either side makes the answer the not-convertible error, whatever the
\* other unit and the value
C13_OtherTypeNotConvertible ==
    \A p \in Procs : Done(p, "convert") /\ loc[p].from # loc[p].to =>
        ((\E m \in UnitsNamed(loc[p].from) \cup UnitsNamed(loc[p].to) : m.type_name = "autre")
            => result[p] = MeasurementError("not_convertible"))

\* C13 amended: with from different from to, a unit of the type "autre" on
\* either side makes the answer the not-convertible error when both units
\* are registered, and the not-found error when the other unit is not; the
\* answer is never a number
C13_OtherTypeRefused ==
    \A p \in Procs : Done(p, "convert") /\ loc[p].from # loc[p].to =>
        ((\E m \in UnitsNamed(loc[p].from) \cup UnitsNamed(loc[p].to) : m.type_name = "autre")
            => result[p] = IF UnitsNamed(loc[p].from) # {} /\ UnitsNamed(loc[p].to) # {}
                           THEN MeasurementError("not_convertible")
                           ELSE MeasurementError("not_found"))

C13_Witness ==
    \E p \in Procs : /\ Done(p, "convert") /\ loc[p].from = "kg" /\ loc[p].to = "botte"
                     /\ loc[p].value = Frac(1, 1)
                     /\ result[p] = MeasurementError("not_convertible")

\* the destination of the request of p is registered, is not of the type
\* "autre" and has no entry in the conversions table
UnlistedDestination(p) ==
    /\ UnitsNamed(loc[p].to) # {}
    /\ \A m \in UnitsNamed(loc[p].to) : m.type_name # "autre"
    /\ ~hasOwnConversion(loc[p].to)

\* C14 as stated: a destination unit that exists and is convertible but has
\* no entry in the conversions table makes the answer an error, not a number
C14_UnlistedDestinationRefused ==
    \A p \in Procs : Done(p, "convert") /\ UnlistedDestination(p) => result[p].kind = "error"

\* C14 amended: the same, for a source name different from the destination
\* name (equal names are answered with the value before any lookup)
C14_UnlistedOtherDestinationRefused ==
    \A p \in Procs : Done(p, "convert") /\ UnlistedDestination(p) /\ loc[p].from # loc[p].to =>
        result[p].kind = "error"

C14_Witness ==
    \E p \in Procs : /\ Done(p, "convert") /\ UnlistedDestination(p)
                     /\ loc[p].from = "L" /\ loc[p].value = Frac(1, 1)
                     /\ result[p] = MeasurementError("unable_to_convert")

\* C15: for two units of the same type that both have an entry in the
\* conversions table, converting a value and converting the result back
\* gives the value
C15_RoundTrip ==
    \A p \in Procs : Done(p, "convert") /\ result[p].kind = "value" =>
        \A fromUnit \in UnitsNamed(loc[p].from), toUnit \in UnitsNamed(loc[p].to) :
            (/\ fromUnit.type_name = toUnit.type_name
             /\ hasOwnConversion(loc[p].from) /\ hasOwnConversion(loc[p].to))
            => \A back \in convert(measurements, result[p].value, loc[p].to, loc[p].from) :
                   back = Converted(loc[p].value)

\* the kilogram and the gram do round-trip: 1 kg is 1000 g and 1000 g is 1 kg
KgToGramsAndBack ==
    \A p \in Procs : Done(p, "convert") /\ loc[p].value = Frac(1, 1) /\ loc[p].from = "kg" /\ loc[p].to = "g" =>
        /\ result[p] = Converted(Frac(1000, 1))
        /\ convert(measurements, result[p].value, "g", "kg") = {Converted(Frac(1, 1))}

\* the listed prices of the menus of a list, each menu counted as many times
\* as the list names it
ListedTotal(menus) ==
    SumSeq([m \in 1..Len(MenuPrice) |-> MenuPrice[m] * Cardinality({i \in 1..Len(menus) : menus[i] = m})])

\* C16: the order row Order.add inserts carries as total_price the sum of the
\* listed prices of the menus of the submitted list, a menu listed twice
\* counting twice, and no later step changes it
C16_TotalPriceIsSumOfMenus ==
    [][\A p \in Procs :
        /\ pc[p] = "idle" /\ pc'[p] = "order_menus" =>
              /\ DOMAIN orders' = DOMAIN orders \cup {loc'[p].order_id}
              /\ loc'[p].order_id \notin DOMAIN orders
              /\ orders'[loc'[p].order_id].total_price = ListedTotal(loc'[p].todo)
        /\ \A o \in DOMAIN orders : o \in DOMAIN orders' /\ orders'[o].total_price = orders[o].total_price
      ]_vars

\* an order of twice the first menu is stored with twice its price
C16_Witness ==
    \E p \in Procs :
        /\ pc[p] = "order_menus" /\ loc[p].todo = <<1, 1>>
        /\ orders[loc[p].order_id].total_price = 2 * MenuPrice[1]

\* C17: the last step of a successful payTakeAway adds to the benefits of the
\* day exactly the total_price of the take-away order the call created; the
\* call inserts the row of the day beforehand only when the day has none, and
\* no other step of the call changes the benefits
C17_TakeAwayAddsOrderPrice ==
    [][\A p \in Procs :
        loc[p].op = "take_away" =>
            IF pc[p] = "stat_update" /\ pc'[p] = "done"
            THEN /\ result'[p] = Ok
                 /\ loc[p].stat_id \in DOMAIN sales_statistics
                 /\ DOMAIN sales_statistics' = DOMAIN sales_statistics
                 /\ orders[loc[p].order_id].booking_id = NoId
                 /\ TodayBenefits(sales_statistics') =
                        TodayBenefits(sales_statistics) + orders[loc[p].order_id].total_price
            ELSE IF pc[p] = "stat_insert" /\ pc'[p] # pc[p]
            THEN /\ DOMAIN sales_statistics = {}
                 /\ Cardinality(DOMAIN sales_statistics') = 1
                 /\ TodayBenefits(sales_statistics') = 0
            ELSE sales_statistics' = sales_statistics
      ]_vars

\* a take-away order of the two menus was paid on a day that had benefits
C17_Witness ==
    \E p \in Procs :
        /\ Done(p, "take_away") /\ result[p] = Ok
        /\ orders[loc[p].order_id].total_price = MenuPrice[1] + MenuPrice[2]
        /\ TodayBenefits(sales_statistics) > orders[loc[p].order_id].total_price

\* the orders_menus rows of an order
MenusOfOrder(order_id) == {i \in DOMAIN orders_menus : orders_menus[i].order_id = order_id}

\* C18: when Order.add has returned, with success or with an error, every
\* order row has its orders_menus rows: no order is persisted without them
C18_NoOrderWithoutMenus ==
    \A p \in Procs : Done(p, "order") \/ Done(p, "take_away") =>
        \A o \in DOMAIN orders : MenusOfOrder(o) # {}

\* C19: Order.add called with a user_id that matches no user inserts no order
\* row and answers with an error
C19_UnknownUserNoOrder ==
    [][\A p \in Procs :
        (/\ pc[p] = "idle" /\ loc'[p].op \in {"order", "take_away"}
         /\ loc'[p].user_id # NoId /\ loc'[p].user_id \notin Users)
        => /\ orders' = orders
           /\ pc'[p] = "done"
           /\ result'[p].kind \in {"error", "throw"}
      ]_vars

\* C20: sales_statistics holds at most one row for the day, also when two
\* addBenefits calls interleave on a day that has no row yet
C20_OneRowPerDay == Cardinality(DOMAIN sales_statistics) <= 1

\* a party size that is a number and at least 1
AtLeastOne(clients_nb) == clients_nb.d # 0 /\ clients_nb.n >= clients_nb.d

\* C21: Booking.add called with an invalid time, or with a party size that
\* is not a number >= 1, returns a 400 error naming the offending field and
\* touches neither tables nor bookings
C21_InvalidInputRejected ==
    [][\A p \in Procs :
        (/\ pc[p] = "idle" /\ loc'[p].op = "add"
         /\ (loc'[p].time = "invalid" \/ ~AtLeastOne(loc'[p].clients_nb)))
        => /\ pc'[p] = "done"
           /\ result'[p] = ModelError(400, IF loc'[p].time = "invalid" THEN {"time"} ELSE {"clients_nb"})
           /\ tables' = tables /\ bookings' = bookings
      ]_vars

\* C22: Booking.add refuses a time earlier than the current time: it
\* answers with an error and no booking is created for it
C22_PastTimeRejected ==
    [][\A p \in Procs :
        (pc[p] = "idle" /\ loc'[p].op = "add" /\ loc'[p].time = "past")
        => /\ pc'[p] = "done"
           /\ IsModelError(result'[p])
           /\ tables' = tables /\ bookings' = bookings
      ]_vars

C25_LowestIdAmongEqual ==
    [][\A p \in Procs :
        (pc[p] = "idle" /\ pc'[p] = "add_update") =>
            \A u \in Fitting(loc'[p].clients_nb) :
                tables[u].capacity = tables[loc'[p].table_id].capacity => loc'[p].table_id <= u
      ]_vars

\* C27: the error Booking.add returns when no table of sufficient capacity
\* is available has another code than the error it returns for invalid input
C27_NoTableErrorDistinct ==
    \A p \in Procs :
        (/\ Done(p, "add") /\ IsModelError(result[p])
         /\ isDate(loc[p].time) /\ isGreaterThan(loc[p].clients_nb, Frac(0, 1), FALSE))
        => /\ result[p].code # ModelError(400, {"time"}).code
           /\ result[p].code # ModelError(400, {"clients_nb"}).code

\* the positions of SalesStatistics.addBenefits
StatPositions == {"stat_select", "stat_insert", "stat_update"}

\* C26: when the order placement inside payTakeAway fails, payTakeAway ends
\* with that error and never reaches the statistics: the call that changes
\* sales_statistics is one whose order was placed
C26_FailedTakeAwayNoBenefits ==
    [][\A p \in Procs :
        (loc[p].op = "take_away" \/ loc'[p].op = "take_away") =>
            /\ (pc'[p] # pc[p] /\ result'[p].kind \in {"error", "throw"}) =>
                   /\ pc'[p] = "done"
                   /\ pc[p] \notin StatPositions
                   /\ sales_statistics' = sales_statistics
            /\ sales_statistics' # sales_statistics =>
                   /\ pc[p] \in StatPositions
                   /\ result[p] = NoResult
                   /\ loc[p].order_id \in DOMAIN orders
                   /\ MenusOfOrder(loc[p].order_id) # {}
      ]_vars

\* a take-away order was refused for want of stock after a day's benefits
\* were recorded
C26_Witness ==
    \E p \in Procs :
        /\ Done(p, "take_away") /\ IsModelError(result[p])
        /\ loc[p].order_id \in DOMAIN orders
        /\ TodayBenefits(sales_statistics) > 0

\* C28: Booking.delete called with a booking_id that matches no booking
\* returns the not-found error and changes no table and no booking
C28_DeleteUnknownNotFound ==
    [][\A p \in Procs :
        (/\ pc[p] = "idle" /\ loc'[p].op = "delete"
         /\ loc'[p].booking_id \notin DOMAIN bookings)
        => /\ result'[p] = ModelError(404, {})
           /\ tables' = tables /\ bookings' = bookings
      ]_vars

\* releasing a table: Table.update(db, table_id, null, null, true)
ReleaseArgs == [name |-> JNull, capacity |-> JNull, is_available |-> JBool(TRUE), can_be_used |-> JUndefined]
Release(ts, table_id) == SqlUpdate(ts, table_id, TableUpdateFields(JNull, JNull, JBool(TRUE), JUndefined))

\* C23: releasing a table that is already available leaves every table as
\* it was, and releasing a table a second time changes nothing more
C23_ReleaseIdempotent ==
    [][\A p \in Procs :
        (/\ pc[p] = "idle" /\ loc'[p].op = "table_update" /\ loc'[p].args = ReleaseArgs
         /\ loc'[p].table_id \in DOMAIN tables)
        => /\ result'[p] = Ok
           /\ tables[loc'[p].table_id].is_available = 1 => tables' = tables
           /\ tables'[loc'[p].table_id].is_available = 1
           /\ Release(tables', loc'[p].table_id) = tables'
      ]_vars

\* a table out of use has been released while another table is taken
C23_Witness ==
    \E p \in Procs :
        /\ Done(p, "table_update") /\ loc[p].args = ReleaseArgs /\ result[p] = Ok
        /\ loc[p].table_id \in DOMAIN tables
        /\ tables[loc[p].table_id].can_be_used = 0
        /\ \E u \in DOMAIN tables : tables[u].is_available = 0

\* the arguments of an update that are neither null nor undefined
Supplied(args) == {k \in DOMAIN args : args[k].t \notin {"null", "undefined"}}

\* the value a supplied argument leaves in its column
Written(value) == IF value.t = "bool" THEN (IF value.v THEN 1 ELSE 0) ELSE value.v

\* C29: Booking.update writes exactly the supplied fields of the booking
\* (false as 0) and leaves its other fields and the other bookings as they
\* were; with no field supplied it writes nothing and returns the
\* "nothing to update" result
C29_UpdateWritesSuppliedFields ==
    [][\A p \in Procs :
        (pc[p] = "idle" /\ loc'[p].op = "update") =>
            LET args == loc'[p].args
                booking_id == loc'[p].booking_id
            IN  IF Supplied(args) = {}
                THEN bookings' = bookings /\ result'[p] = ModelError(200, {})
                ELSE /\ result'[p] = Ok
                     /\ DOMAIN bookings' = DOMAIN bookings
                     /\ \A b \in DOMAIN bookings :
                            /\ DOMAIN bookings'[b] = DOMAIN bookings[b]
                            /\ \A f \in DOMAIN bookings[b] :
                                   bookings'[b][f] = IF b = booking_id /\ f \in Supplied(args)
                                                     THEN Written(args[f])
                                                     ELSE bookings[b][f]
      ]_vars

\* an update has put false in a column that held 1 and left the columns
\* that were not supplied as they were
C29_Witness ==
    \E p \in Procs :
        /\ Done(p, "update") /\ result[p] = Ok
        /\ loc[p].booking_id \in DOMAIN bookings
        /\ loc[p].args.is_client_on_place = JBool(FALSE)
        /\ loc[p].args.is_paid = JUndefined
        /\ bookings[loc[p].booking_id].is_client_on_place = 0
        /\ bookings[loc[p].booking_id].is_paid = 1

\* C30: Booking.update accepts and applies is_paid = true or
\* can_client_pay = true on a booking whose client is not on place
C30_TransitionOrderNotEnforced ==
    [][\A p \in Procs :
        (/\ pc[p] = "idle" /\ loc'[p].op = "update"
         /\ loc'[p].booking_id \in DOMAIN bookings
         /\ bookings[loc'[p].booking_id].is_client_on_place = 0
         /\ loc'[p].args.is_client_on_place # JBool(TRUE))
        => LET args == loc'[p].args
               booking == bookings'[loc'[p].booking_id]
           IN  /\ args.is_paid = JBool(TRUE) => (result'[p] = Ok /\ booking.is_paid = 1)
               /\ args.can_client_pay = JBool(TRUE) => (result'[p] = Ok /\ booking.can_client_pay = 1)
               /\ booking.is_client_on_place = 0
      ]_vars

\* a booking is paid although its client never was on place
C30_Witness ==
    \E p \in Procs :
        /\ Done(p, "update") /\ result[p] = Ok
        /\ loc[p].args.is_paid = JBool(TRUE)
        /\ loc[p].booking_id \in DOMAIN bookings
        /\ bookings[loc[p].booking_id].is_paid = 1
        /\ bookings[loc[p].booking_id].can_client_pay = 0
        /\ bookings[loc[p].booking_id].is_client_on_place = 0

\* C31: a booking that is finished and paid keeps both flags: no step of
\* Booking.update or of payBooking takes is_finished or is_paid back to 0
C31_FinishedPaidTerminal ==
    [][\A b \in DOMAIN bookings :
        (bookings[b].is_finished = 1 /\ bookings[b].is_paid = 1) =>
            /\ b \in DOMAIN bookings'
            /\ bookings'[b].is_finished = 1 /\ bookings'[b].is_paid = 1
      ]_vars

\* the positions of payBooking after the tests of the booking
PayPositions == {"pay_mark", "pay_free", "pay_orders"} \cup StatPositions

\* C32: payBooking marks the booking, then releases the table, then records
\* the sales: the booking is written only by the first step, the tables
\* only by the second, on a booking already marked, and the statistics
\* only after both; a step that fails ends the call with an error and
\* undoes nothing, the booking staying finished and paid
C32_PayStepsInOrderNoRollback ==
    [][\A p \in Procs :
        (loc[p].op = "pay" /\ pc[p] \in PayPositions /\ pc'[p] # pc[p]) =>
            LET booking == bookings'[loc[p].booking_id]
            IN  /\ bookings' # bookings =>
                        pc[p] = "pay_mark" /\ pc'[p] = "pay_free" /\ booking.is_finished = 1
                /\ pc[p] # "pay_mark" =>
                        bookings' = bookings /\ booking.is_finished = 1 /\ booking.is_paid = 1
                /\ tables' # tables => pc[p] = "pay_free"
                /\ pc[p] = "pay_free" => pc'[p] \in {"pay_orders", "done"}
                /\ sales_statistics' # sales_statistics => pc[p] \in StatPositions
                /\ pc'[p] \in StatPositions => pc[p] \in {"pay_orders"} \cup StatPositions
                /\ (pc'[p] = "done" /\ result'[p].kind \in {"error", "throw"}) =>
                        /\ tables' = tables /\ bookings' = bookings
                        /\ sales_statistics' = sales_statistics /\ orders' = orders
      ]_vars

\* the release of the table has failed after the booking was marked, and
\* the booking is still finished and paid
C32_Witness ==
    \E p \in Procs :
        /\ Done(p, "pay") /\ result[p] = Thrown
        /\ loc[p].booking_id \in DOMAIN bookings
        /\ bookings[loc[p].booking_id].is_finished = 1
        /\ bookings[loc[p].booking_id].is_paid = 1

\* the bookings that are not finished
OpenBookings == {b \in DOMAIN bookings : bookings[b].is_finished = 0}

\* C33: with one request handled at a time, the table of every booking that
\* is not finished is unavailable, and no two such bookings have the same
\* table
C33_OpenBookingsHoldTheirTables ==
    \A b \in OpenBookings :
        /\ bookings[b].table_id \in DOMAIN tables
        /\ tables[bookings[b].table_id].is_available = 0
        /\ \A c \in OpenBookings : c # b => bookings[c].table_id # bookings[b].table_id

\* two bookings were made, one of them was paid and a deletion was tried
C33_Witness ==
    /\ \E b \in OpenBookings : \E c \in DOMAIN bookings : c # b /\ bookings[c].is_finished = 1
    /\ \E p \in Procs : Done(p, "delete")

\* the total of the orders of the bookings that are finished
RECURSIVE FinishedTotal(_)
FinishedTotal(ids) ==
    IF ids = {} THEN 0
    ELSE LET b == CHOOSE x \in ids : TRUE
         IN  (IF bookings[b].is_finished = 1 THEN SumTotalPrice(OrderGetByBookingId(b)) ELSE 0)
                + FinishedTotal(ids \ {b})

\* C34: when payBooking calls interleave, the total of the orders of a
\* booking is added to the benefits of the day at most once: the benefits
\* never exceed the totals of the bookings that were paid
C34_BookingPaidAtMostOnce ==
    TodayBenefits(sales_statistics) <= FinishedTotal(DOMAIN bookings)

\* C35: when an addBenefits call completes and no other one is under way,
\* getToday returns the sum of all the amounts added that day: what the
\* rows of the day held before the call, plus the amount of the call
C35_TodayHoldsAllBenefits ==
    [][\A p \in Procs :
        (/\ pc[p] = "stat_update" /\ pc'[p] = "done"
         /\ \A q \in Procs \ {p} : pc[q] \notin StatPositions)
        => getToday(sales_statistics') = {TodayBenefits(sales_statistics) + loc[p].benefits}
      ]_vars

\* the measurement types a unit belongs to
UnitTypes(unit_id) == {m.type_name : m \in {x \in measurements : x.name = unit_id}}

\* C36: the unit of every menu ingredient belongs to the measurement type
\* of the unit of the stock item the ingredient references
C36_IngredientUnitMatchesStock ==
    \A i \in DOMAIN menu_ingredients :
        /\ menu_ingredients[i].stock_id \in DOMAIN stocks
        /\ UnitTypes(menu_ingredients[i].units_unit_id)
               = UnitTypes(stocks[menu_ingredients[i].stock_id].units_unit_id)

\* the quotients of the ingredients processed by a handler
Quotients(p) == UNION {HowMuchOfIngredient(menu_ingredients[loc[p].todo[i]]) : i \in DOMAIN loc[p].todo}

\* C37: the how_much of a menu with ingredients is the smallest of the
\* quotients stock quantity / converted ingredient quantity of its
\* ingredients, whatever their order: 0 when the stock of one of them is 0
C37_HowMuchIsSmallestQuotient ==
    \A p \in Procs :
        (Done(p, "menu") /\ loc[p].todo # <<>>) =>
            /\ result[p].how_much.v \in Quotients(p)
            /\ \A q \in Quotients(p) : ~Less(q, result[p].how_much.v)

\* the rows of the days before the current one
EarlierRows(rows) == {i \in DOMAIN rows : rows[i].day = EarlierDay}

\* C38: StockStatistics.add and MenusStatistics.add leave the rows of the
\* earlier days as they were
C38_EarlierDaysKept ==
    [][/\ \A i \in EarlierRows(stock_statistics) :
            i \in DOMAIN stock_statistics' /\ stock_statistics'[i] = stock_statistics[i]
       /\ \A i \in EarlierRows(menus_statistics) :
            i \in DOMAIN menus_statistics' /\ menus_statistics'[i] = menus_statistics[i]
      ]_vars

====
